---- MODULE Spec2Model ----
(***************************************************************************)
(* A model of astring (src/astring.js): the emitter that walks an ESTree    *)
(* AST depth first and writes JavaScript text.                              *)
(*                                                                          *)
(* A JavaScript string is a sequence of lexemes: a word, an operator, a     *)
(* punctuator or one white-space character each, so that 'for (' is         *)
(* <<"for", " ", "(">> and string concatenation is \o.  A JavaScript value  *)
(* that may be undefined is a sequence of at most one element.  An optional *)
(* attribute of a node or of the options (x != null in the source) is a     *)
(* record field that is present or absent.                                  *)
(*                                                                          *)
(* The recursion of the formatters is kept as an explicit stack of pending  *)
(* steps: a formatter that is called replaces its call by the steps of its  *)
(* body, in order, followed by its return.                                  *)
(***************************************************************************)
EXTENDS Integers, Sequences, FiniteSets, TLC

VARIABLES
    ast,       \* the node handed to astring
    options,   \* the options handed to astring
    state,     \* the State object of the running call
    sink,      \* the chunks the `output` sink has received through write()
    stack,     \* the pending steps of the traversal, innermost first
    pc,        \* "running", "returned" or "thrown"
    result,    \* what astring returned
    error,     \* what astring threw
    previous   \* what an earlier call on the same node returned

vars == <<ast, options, state, sink, stack, pc, result, error, previous>>

\* ------------------------------------------------------------------ bounds

\* startingIndentLevel ranges over 0..MaxIndent
MaxIndent == 1

\* a block, a case and a program hold at most MaxBody statements
MaxBody == 2

\* a callee's MemberExpression chain is at most MaxChain deep
MaxChain == 2

\* ------------------------------------------------------------- JS values

Undefined == <<>>

Defined(v) == <<v>>

\* a < b of two numbers that may be undefined: false when either is
JSLess(a, b) == a # Undefined /\ b # Undefined /\ a[1] < b[1]

JSLessEq(a, b) == a # Undefined /\ b # Undefined /\ a[1] <= b[1]

NoValue == [undefined |-> TRUE]

StringValue(s) == [string |-> s]

\* the reference to the sink object given as options.output
SinkObject == [object |-> "sink"]

RECURSIVE Repeat(_, _)
\* string.repeat( count )
Repeat(string, count) == IF count <= 0 THEN <<>> ELSE string \o Repeat(string, count - 1)

RECURSIVE Flatten(_)
\* the concatenation of a sequence of strings, in order
Flatten(chunks) == IF chunks = <<>> THEN <<>> ELSE Head(chunks) \o Flatten(Tail(chunks))

\* the first characters of the node types whose spelling the source looks at
Spelling ==
    [ CallExpression |-> <<"C", "a", "l", "l">>,
      CatchClause |-> <<"C", "a", "t", "c">>,
      MemberExpression |-> <<"M", "e", "m", "b">>,
      MetaProperty |-> <<"M", "e", "t", "a">>,
      MethodDefinition |-> <<"M", "e", "t", "h">>,
      Identifier |-> <<"I", "d", "e", "n">>,
      ImportExpression |-> <<"I", "m", "p", "o">>,
      ObjectExpression |-> <<"O", "b", "j", "e">>,
      ObjectPattern |-> <<"O", "b", "j", "e">>,
      ForInStatement |-> <<"F", "o", "r", "I">>,
      ForOfStatement |-> <<"F", "o", "r", "O">>,
      ForStatement |-> <<"F", "o", "r", "S">>,
      FunctionExpression |-> <<"F", "u", "n", "c">>,
      FunctionDeclaration |-> <<"F", "u", "n", "c">>,
      ClassExpression |-> <<"C", "l", "a", "s">>,
      ClassDeclaration |-> <<"C", "l", "a", "s">>,
      ClassBody |-> <<"C", "l", "a", "s">>,
      ConditionalExpression |-> <<"C", "o", "n", "d">>,
      ArrowFunctionExpression |-> <<"A", "r", "r", "o">>,
      AssignmentExpression |-> <<"A", "s", "s", "i">>,
      AwaitExpression |-> <<"A", "w", "a", "i">>,
      BinaryExpression |-> <<"B", "i", "n", "a">>,
      BlockStatement |-> <<"B", "l", "o", "c">>,
      LogicalExpression |-> <<"L", "o", "g", "i">>,
      Literal |-> <<"L", "i", "t", "e">>,
      NewExpression |-> <<"N", "e", "w", "E">>,
      SequenceExpression |-> <<"S", "e", "q", "u">>,
      SwitchStatement |-> <<"S", "w", "i", "t">>,
      UnaryExpression |-> <<"U", "n", "a", "r">>,
      VariableDeclaration |-> <<"V", "a", "r", "i">>,
      ExpressionStatement |-> <<"E", "x", "p", "r">>,
      EmptyStatement |-> <<"E", "m", "p", "t">>,
      Program |-> <<"P", "r", "o", "g">>,
      Line |-> <<"L", "i", "n", "e">>,
      Block |-> <<"B", "l", "o", "c">>,
      Property |-> <<"P", "r", "o", "p">> ]

\* type[ i ], with the source's index from 0
TypeChar(type, i) == Spelling[type][i + 1]

\* --------------------------------------------------------------- tables

OPERATOR_PRECEDENCE ==
    ("||" :> 3) @@ ("&&" :> 4) @@ ("|" :> 5) @@ ("^" :> 6) @@ ("&" :> 7) @@
    ("==" :> 8) @@ ("!=" :> 8) @@ ("===" :> 8) @@ ("!==" :> 8) @@
    ("<" :> 9) @@ (">" :> 9) @@ ("<=" :> 9) @@ (">=" :> 9) @@
    ("in" :> 9) @@ ("instanceof" :> 9) @@
    ("<<" :> 10) @@ (">>" :> 10) @@ (">>>" :> 10) @@
    ("+" :> 11) @@ ("-" :> 11) @@
    ("*" :> 12) @@ ("%" :> 12) @@ ("/" :> 12) @@
    ("**" :> 13)

EXPRESSIONS_PRECEDENCE ==
    [ ArrayExpression |-> 20,
      TaggedTemplateExpression |-> 20,
      ThisExpression |-> 20,
      Identifier |-> 20,
      Literal |-> 18,
      TemplateLiteral |-> 20,
      Super |-> 20,
      SequenceExpression |-> 20,
      MemberExpression |-> 19,
      CallExpression |-> 19,
      NewExpression |-> 19,
      ArrowFunctionExpression |-> 18,
      ClassExpression |-> 17,
      FunctionExpression |-> 17,
      ObjectExpression |-> 17,
      UpdateExpression |-> 16,
      UnaryExpression |-> 15,
      BinaryExpression |-> 14,
      LogicalExpression |-> 13,
      ConditionalExpression |-> 4,
      AssignmentExpression |-> 3,
      YieldExpression |-> 2,
      RestElement |-> 1 ]

\* EXPRESSIONS_PRECEDENCE[ type ]: undefined for a type the table lacks
Precedence(type) ==
    IF type \in DOMAIN EXPRESSIONS_PRECEDENCE
    THEN Defined(EXPRESSIONS_PRECEDENCE[type])
    ELSE Undefined

\* OPERATOR_PRECEDENCE[ operator ]
OperatorPrecedence(operator) ==
    IF operator \in DOMAIN OPERATOR_PRECEDENCE
    THEN Defined(OPERATOR_PRECEDENCE[operator])
    ELSE Undefined

\* defaultGenerator: each key with the function it holds; keys that share a
\* function by reference hold the same name
defaultGenerator ==
    [ Program |-> "Program",
      BlockStatement |-> "BlockStatement",
      ClassBody |-> "BlockStatement",
      EmptyStatement |-> "EmptyStatement",
      ExpressionStatement |-> "ExpressionStatement",
      IfStatement |-> "IfStatement",
      LabeledStatement |-> "LabeledStatement",
      BreakStatement |-> "BreakStatement",
      ContinueStatement |-> "ContinueStatement",
      WithStatement |-> "WithStatement",
      SwitchStatement |-> "SwitchStatement",
      ReturnStatement |-> "ReturnStatement",
      ThrowStatement |-> "ThrowStatement",
      TryStatement |-> "TryStatement",
      WhileStatement |-> "WhileStatement",
      DoWhileStatement |-> "DoWhileStatement",
      ForStatement |-> "ForStatement",
      ForInStatement |-> "ForInStatement",
      ForOfStatement |-> "ForInStatement",
      DebuggerStatement |-> "DebuggerStatement",
      FunctionDeclaration |-> "FunctionDeclaration",
      FunctionExpression |-> "FunctionDeclaration",
      VariableDeclaration |-> "VariableDeclaration",
      VariableDeclarator |-> "VariableDeclarator",
      ClassDeclaration |-> "ClassDeclaration",
      ImportDeclaration |-> "ImportDeclaration",
      ExportDefaultDeclaration |-> "ExportDefaultDeclaration",
      ExportNamedDeclaration |-> "ExportNamedDeclaration",
      ExportAllDeclaration |-> "ExportAllDeclaration",
      MethodDefinition |-> "MethodDefinition",
      ClassExpression |-> "ClassExpression",
      ArrowFunctionExpression |-> "ArrowFunctionExpression",
      ThisExpression |-> "ThisExpression",
      Super |-> "Super",
      RestElement |-> "RestElement",
      SpreadElement |-> "RestElement",
      YieldExpression |-> "YieldExpression",
      AwaitExpression |-> "AwaitExpression",
      TemplateLiteral |-> "TemplateLiteral",
      TaggedTemplateExpression |-> "TaggedTemplateExpression",
      ArrayExpression |-> "ArrayExpression",
      ArrayPattern |-> "ArrayExpression",
      ObjectExpression |-> "ObjectExpression",
      Property |-> "Property",
      ObjectPattern |-> "ObjectPattern",
      SequenceExpression |-> "SequenceExpression",
      UnaryExpression |-> "UnaryExpression",
      UpdateExpression |-> "UpdateExpression",
      AssignmentExpression |-> "AssignmentExpression",
      AssignmentPattern |-> "AssignmentPattern",
      BinaryExpression |-> "BinaryExpression",
      LogicalExpression |-> "BinaryExpression",
      ConditionalExpression |-> "ConditionalExpression",
      NewExpression |-> "NewExpression",
      CallExpression |-> "CallExpression",
      MemberExpression |-> "MemberExpression",
      MetaProperty |-> "MetaProperty",
      Identifier |-> "Identifier",
      Literal |-> "Literal",
      RegExpLiteral |-> "RegExpLiteral" ]

\* ------------------------------------------------------------------ State

\* new State( options )
StateConstructorOverlay(opts) ==
    [ output |-> IF "output" \in DOMAIN opts THEN opts.output ELSE StringValue(<<>>),
      write |-> IF "output" \in DOMAIN opts THEN "writeToStream" ELSE "write",
      generator |->
          IF "generator" \in DOMAIN opts
          THEN opts.generator @@ defaultGenerator
          ELSE defaultGenerator,
      indent |-> IF "indent" \in DOMAIN opts THEN opts.indent ELSE <<"\t">>,
      lineEnd |-> IF "lineEnd" \in DOMAIN opts THEN opts.lineEnd ELSE <<"\n">>,
      indentLevel |->
          IF "startingIndentLevel" \in DOMAIN opts THEN opts.startingIndentLevel ELSE 0,
      writeComments |-> IF "comments" \in DOMAIN opts /\ opts.comments THEN TRUE ELSE FALSE,
      noTrailingSemicolon |-> FALSE ]

StateConstructor(opts) ==
    [ output |-> IF "output" \in DOMAIN opts THEN opts.output ELSE StringValue(<<>>),
      write |-> IF "output" \in DOMAIN opts THEN "writeToStream" ELSE "write",
      generator |-> IF "generator" \in DOMAIN opts THEN opts.generator ELSE defaultGenerator,
      indent |-> IF "indent" \in DOMAIN opts THEN opts.indent ELSE <<"\t">>,
      lineEnd |-> IF "lineEnd" \in DOMAIN opts THEN opts.lineEnd ELSE <<"\n">>,
      indentLevel |->
          IF "startingIndentLevel" \in DOMAIN opts THEN opts.startingIndentLevel ELSE 0,
      writeComments |-> IF "comments" \in DOMAIN opts /\ opts.comments THEN TRUE ELSE FALSE,
      noTrailingSemicolon |-> FALSE ]

\* ------------------------------------------------------------------ steps

\* state.write( string )
W(string) == [op |-> "write", string |-> string]

\* generator[ key ]( node, state ), also written this[ key ]( node, state )
Call(key, node) == [op |-> "call", key |-> key, node |-> node]

\* this[ node.type ]( node, state )
V(node) == Call(node.type, node)

\* formatSequence( state, nodes )
Sequence(nodes) == [op |-> "formatSequence", nodes |-> nodes]

\* formatBinaryExpressionPart( state, node, parentNode, isRightHand )
Part(node, parentNode, isRightHand) ==
    [ op |-> "formatBinaryExpressionPart", node |-> node,
      parentNode |-> parentNode, isRightHand |-> isRightHand ]

\* formatComments( state, comments, indent, lineEnd )
Comments(comments, indent, lineEnd) ==
    [ op |-> "formatComments", comments |-> comments,
      indent |-> indent, lineEnd |-> lineEnd ]

\* state.indentLevel++ (by = 1), state.indentLevel-- and -= 2 (by = -1, -2)
IndentLevel(by) == [op |-> "indentLevel", by |-> by]

\* state.noTrailingSemicolon = value
NoTrailingSemicolon(value) == [op |-> "noTrailingSemicolon", value |-> value]

\* if ( state.noTrailingSemicolon !== true ) state.write( ';' )
Semicolon == [op |-> "semicolon"]

\* the end of the formatter `formatter`, called under `key` when the state
\* had this indentLevel and this noTrailingSemicolon
ReturnFrom(formatter, key, st) ==
    [ op |-> "return", formatter |-> formatter, key |-> key,
      indentLevel |-> st.indentLevel,
      noTrailingSemicolon |-> st.noTrailingSemicolon ]

\* node.<field> is neither null nor undefined
Has(node, field) == field \in DOMAIN node

\* node.<field> is truthy, for a boolean attribute
Truthy(node, field) == field \in DOMAIN node /\ node[field] = TRUE

\* if ( writeComments && node.<field> != null ) formatComments( ... )
CommentsOf(node, field, indent, st) ==
    IF st.writeComments /\ Has(node, field)
    THEN <<Comments(node[field], indent, st.lineEnd)>>
    ELSE <<>>

\* --------------------------------------------------------------- helpers

expressionNeedsParenthesisNoAssociativity(node, parentNode, isRightHand) ==
    LET nodePrecedence == Precedence(node.type)
        parentNodePrecedence == Precedence(parentNode.type)
    IN  IF nodePrecedence # parentNodePrecedence
        THEN JSLess(nodePrecedence, parentNodePrecedence)
        ELSE IF nodePrecedence # Defined(13) /\ nodePrecedence # Defined(14)
        THEN FALSE
        ELSE JSLess(OperatorPrecedence(node.operator),
                    OperatorPrecedence(parentNode.operator))

expressionNeedsParenthesis(node, parentNode, isRightHand) ==
    LET nodePrecedence == Precedence(node.type)
        parentNodePrecedence == Precedence(parentNode.type)
    IN  IF nodePrecedence # parentNodePrecedence
        THEN JSLess(nodePrecedence, parentNodePrecedence)
        ELSE IF nodePrecedence # Defined(13) /\ nodePrecedence # Defined(14)
        THEN FALSE
        ELSE IF node.operator = "**" /\ parentNode.operator = "**"
        THEN ~isRightHand
        ELSE IF isRightHand
        THEN JSLessEq(OperatorPrecedence(node.operator),
                      OperatorPrecedence(parentNode.operator))
        ELSE JSLess(OperatorPrecedence(node.operator),
                    OperatorPrecedence(parentNode.operator))

formatBinaryExpressionPart(node, parentNode, isRightHand) ==
    IF expressionNeedsParenthesis(node, parentNode, isRightHand)
    THEN <<W(<<"(">>), V(node), W(<<")">>)>>
    ELSE <<V(node)>>

RECURSIVE SequenceRest(_, _)
\* the loop of formatSequence from index i (from 1 here, from 0 there)
SequenceRest(nodes, i) ==
    IF i > Len(nodes) THEN <<>>
    ELSE <<W(<<",", " ">>), V(nodes[i])>> \o SequenceRest(nodes, i + 1)

formatSequence(nodes) ==
    <<W(<<"(">>)>>
    \o (IF Len(nodes) > 0 THEN <<V(nodes[1])>> \o SequenceRest(nodes, 2) ELSE <<>>)
    \o <<W(<<")">>)>>

hasCallExpressionTopOnly(node) ==
    TypeChar(node.type, 0) = "C" /\ TypeChar(node.type, 1) = "a"

RECURSIVE hasCallExpression(_)
hasCallExpression(node) ==
    IF TypeChar(node.type, 0) = "C" /\ TypeChar(node.type, 1) = "a"
    THEN TRUE
    ELSE IF /\ TypeChar(node.type, 0) = "M"
            /\ TypeChar(node.type, 1) = "e"
            /\ TypeChar(node.type, 2) = "m"
    THEN hasCallExpression(node.object)
    ELSE FALSE

\* ------------------------------------------------- statement formatters

RECURSIVE StatementSteps(_, _, _, _)
\* the loop over the statements of a body: comments, indent, statement, lineEnd
StatementSteps(statements, i, indent, st) ==
    IF i > Len(statements) THEN <<>>
    ELSE CommentsOf(statements[i], "comments", indent, st)
         \o <<W(indent), V(statements[i]), W(st.lineEnd)>>
         \o StatementSteps(statements, i + 1, indent, st)

Program(node, st) ==
    LET indent == Repeat(st.indent, st.indentLevel)
    IN  CommentsOf(node, "comments", indent, st)
        \o StatementSteps(node.body, 1, indent, st)
        \o CommentsOf(node, "trailingComments", indent, st)

BlockStatement(node, st) ==
    LET indent == Repeat(st.indent, st.indentLevel)
        statementIndent == indent \o st.indent
    IN  <<IndentLevel(1), W(<<"{">>)>>
        \o (IF Has(node, "body") /\ Len(node.body) > 0
            THEN <<W(st.lineEnd)>>
                 \o CommentsOf(node, "comments", statementIndent, st)
                 \o StatementSteps(node.body, 1, statementIndent, st)
                 \o <<W(indent)>>
            ELSE IF st.writeComments /\ Has(node, "comments")
            THEN <<W(st.lineEnd),
                   Comments(node.comments, statementIndent, st.lineEnd),
                   W(indent)>>
            ELSE <<>>)
        \o CommentsOf(node, "trailingComments", statementIndent, st)
        \o <<W(<<"}">>), IndentLevel(-1)>>

EmptyStatement(node, st) == <<W(<<";">>)>>

ExpressionStatement(node, st) ==
    LET precedence == Precedence(node.expression.type)
    IN  (IF \/ precedence = Defined(17)
            \/ /\ precedence = Defined(3)
               /\ TypeChar(node.expression.left.type, 0) = "O"
         THEN <<W(<<"(">>), V(node.expression), W(<<")">>)>>
         ELSE <<V(node.expression)>>)
        \o <<W(<<";">>)>>

RECURSIVE CaseSteps(_, _, _, _)
\* the loop over the cases of a switch
CaseSteps(occurences, i, caseIndent, st) ==
    IF i > Len(occurences) THEN <<>>
    ELSE LET occurence == occurences[i]
             statementIndent == caseIndent \o st.indent
         IN  CommentsOf(occurence, "comments", caseIndent, st)
             \o (IF Has(occurence, "test")
                 THEN <<W(caseIndent \o <<"case", " ">>),
                        V(occurence.test),
                        W(<<":">> \o st.lineEnd)>>
                 ELSE <<W(caseIndent \o <<"default", ":">> \o st.lineEnd)>>)
             \o StatementSteps(occurence.consequent, 1, statementIndent, st)
             \o CaseSteps(occurences, i + 1, caseIndent, st)

SwitchStatementUnbalanced(node, st) ==
    LET indent == Repeat(st.indent, st.indentLevel)
        caseIndent == indent \o st.indent
    IN  <<IndentLevel(1), IndentLevel(1),
          W(<<"switch", " ", "(">>), V(node.discriminant),
          W(<<")", " ", "{">> \o st.lineEnd)>>
        \o CaseSteps(node.cases, 1, caseIndent, st)
        \o <<IndentLevel(-1), W(indent \o <<"}">>)>>

SwitchStatement(node, st) ==
    LET indent == Repeat(st.indent, st.indentLevel)
        caseIndent == indent \o st.indent
    IN  <<IndentLevel(1), IndentLevel(1),
          W(<<"switch", " ", "(">>), V(node.discriminant),
          W(<<")", " ", "{">> \o st.lineEnd)>>
        \o CaseSteps(node.cases, 1, caseIndent, st)
        \o <<IndentLevel(-2), W(indent \o <<"}">>)>>

ForStatement(node, st) ==
    <<W(<<"for", " ", "(">>)>>
    \o (IF Has(node, "init")
        THEN <<NoTrailingSemicolon(TRUE), V(node.init), NoTrailingSemicolon(FALSE)>>
        ELSE <<>>)
    \o <<W(<<";", " ">>)>>
    \o (IF Has(node, "test") THEN <<V(node.test)>> ELSE <<>>)
    \o <<W(<<";", " ">>)>>
    \o (IF Has(node, "update") THEN <<V(node.update)>> ELSE <<>>)
    \o <<W(<<")", " ">>), V(node.body)>>

ForInStatement(node, st) ==
    <<W(<<"for", " ", "(">>),
      NoTrailingSemicolon(TRUE), V(node.left), NoTrailingSemicolon(FALSE),
      W(IF TypeChar(node.type, 3) = "I" THEN <<" ", "in", " ">> ELSE <<" ", "of", " ">>),
      V(node.right),
      W(<<")", " ">>), V(node.body)>>

DebuggerStatement(node, st) == <<W(<<"debugger", ";">> \o st.lineEnd)>>

FunctionDeclaration(node, st) ==
    <<W((IF Truthy(node, "async") THEN <<"async", " ">> ELSE <<>>)
        \o (IF Truthy(node, "generator")
            THEN <<"function", "*", " ">> ELSE <<"function", " ">>)
        \o (IF Has(node, "id") THEN <<node.id.name>> ELSE <<>>)),
      Sequence(node.params),
      W(<<" ">>),
      V(node.body)>>

RECURSIVE DeclaratorSteps(_, _)
\* the loop over the declarators of a declaration, from the second
DeclaratorSteps(declarations, i) ==
    IF i > Len(declarations) THEN <<>>
    ELSE <<W(<<",", " ">>), Call("VariableDeclarator", declarations[i])>>
         \o DeclaratorSteps(declarations, i + 1)

VariableDeclaration(node, st) ==
    <<W(<<node.kind, " ">>)>>
    \o (IF Len(node.declarations) > 0
        THEN <<Call("VariableDeclarator", node.declarations[1])>>
             \o DeclaratorSteps(node.declarations, 2)
        ELSE <<>>)
    \o <<Semicolon>>

VariableDeclarator(node, st) ==
    <<V(node.id)>>
    \o (IF Has(node, "init") THEN <<W(<<" ", "=", " ">>), V(node.init)>> ELSE <<>>)

ClassDeclaration(node, st) ==
    <<W(<<"class", " ">> \o (IF Has(node, "id") THEN <<node.id.name>> ELSE <<" ">>))>>
    \o (IF Has(node, "superClass")
        THEN <<W(<<"extends", " ">>), V(node.superClass), W(<<" ">>)>>
        ELSE <<>>)
    \o <<Call("ClassBody", node.body)>>

ExportDefaultDeclaration(node, st) ==
    LET precedence == Precedence(node.declaration.type)
    IN  <<W(<<"export", " ", "default", " ">>), V(node.declaration)>>
        \o (IF precedence # Undefined /\ precedence[1] # 0
                /\ TypeChar(node.declaration.type, 0) # "F"
            THEN <<W(<<";">>)>>
            ELSE <<>>)

ClassExpression(node, st) == <<Call("ClassDeclaration", node)>>

\* ------------------------------------------------ expression formatters

ArrowFunctionExpressionBareBody(node, st) ==
    (IF Truthy(node, "async") THEN <<W(<<"async", " ">>)>> ELSE <<>>)
    \o (IF Has(node, "params")
        THEN IF Len(node.params) = 1 /\ TypeChar(node.params[1].type, 0) = "I"
             THEN <<W(<<node.params[1].name>>)>>
             ELSE <<Sequence(node.params)>>
        ELSE <<>>)
    \o <<W(<<" ", "=>", " ">>), V(node.body)>>

ArrowFunctionExpression(node, st) ==
    (IF Truthy(node, "async") THEN <<W(<<"async", " ">>)>> ELSE <<>>)
    \o (IF Has(node, "params")
        THEN IF Len(node.params) = 1 /\ TypeChar(node.params[1].type, 0) = "I"
             THEN <<W(<<node.params[1].name>>)>>
             ELSE <<Sequence(node.params)>>
        ELSE <<>>)
    \o <<W(<<" ", "=>", " ">>)>>
    \o (IF TypeChar(node.body.type, 0) = "O"
        THEN <<W(<<"(">>), Call("ObjectExpression", node.body), W(<<")">>)>>
        ELSE <<V(node.body)>>)

AwaitExpression(node, st) ==
    <<W(<<"await", " ">>)>>
    \o (IF Has(node, "argument") THEN <<V(node.argument)>> ELSE <<>>)

RECURSIVE PropertySteps(_, _, _, _)
\* the loop over the properties of an object expression
PropertySteps(properties, i, propertyIndent, st) ==
    CommentsOf(properties[i], "comments", propertyIndent, st)
    \o <<W(propertyIndent), Call("Property", properties[i])>>
    \o (IF i < Len(properties)
        THEN <<W(<<",">> \o st.lineEnd)>>
             \o PropertySteps(properties, i + 1, propertyIndent, st)
        ELSE <<>>)

ObjectExpression(node, st) ==
    LET indent == Repeat(st.indent, st.indentLevel)
        propertyIndent == indent \o st.indent
    IN  <<IndentLevel(1), W(<<"{">>)>>
        \o (IF Len(node.properties) > 0
            THEN <<W(st.lineEnd)>>
                 \o CommentsOf(node, "comments", propertyIndent, st)
                 \o PropertySteps(node.properties, 1, propertyIndent, st)
                 \o <<W(st.lineEnd)>>
                 \o CommentsOf(node, "trailingComments", propertyIndent, st)
                 \o <<W(indent \o <<"}">>)>>
            ELSE IF st.writeComments
            THEN IF Has(node, "comments")
                 THEN <<W(st.lineEnd),
                        Comments(node.comments, propertyIndent, st.lineEnd)>>
                      \o (IF Has(node, "trailingComments")
                          THEN <<Comments(node.trailingComments, propertyIndent,
                                          st.lineEnd)>>
                          ELSE <<>>)
                      \o <<W(indent \o <<"}">>)>>
                 ELSE IF Has(node, "trailingComments")
                 THEN <<W(st.lineEnd),
                        Comments(node.trailingComments, propertyIndent, st.lineEnd),
                        W(indent \o <<"}">>)>>
                 ELSE <<W(<<"}">>)>>
            ELSE <<W(<<"}">>)>>)
        \o <<IndentLevel(-1)>>

\* node.kind[ 0 ] !== 'i' holds of the kinds `get` and `set`, not of `init`
Property(node, st) ==
    IF Truthy(node, "method") \/ node.kind # "init"
    THEN <<Call("MethodDefinition", node)>>
    ELSE (IF ~Truthy(node, "shorthand")
          THEN (IF Truthy(node, "computed")
                THEN <<W(<<"[">>), V(node.key), W(<<"]">>)>>
                ELSE <<V(node.key)>>)
               \o <<W(<<":", " ">>)>>
          ELSE <<>>)
         \o <<V(node.value)>>

RECURSIVE PatternSteps(_, _)
\* the loop over the properties of an object pattern
PatternSteps(properties, i) ==
    <<V(properties[i])>>
    \o (IF i < Len(properties)
        THEN <<W(<<",", " ">>)>> \o PatternSteps(properties, i + 1)
        ELSE <<>>)

ObjectPattern(node, st) ==
    <<W(<<"{">>)>>
    \o (IF Len(node.properties) > 0 THEN PatternSteps(node.properties, 1) ELSE <<>>)
    \o <<W(<<"}">>)>>

SequenceExpression(node, st) == <<Sequence(node.expressions)>>

UnaryExpression(node, st) ==
    IF node.prefix
    THEN <<W(<<node.operator>>)>>
         \o (IF Len(node.operator) > 1 THEN <<W(<<" ">>)>> ELSE <<>>)
         \o (IF JSLess(Precedence(node.argument.type), Precedence("UnaryExpression"))
             THEN <<W(<<"(">>), V(node.argument), W(<<")">>)>>
             ELSE <<V(node.argument)>>)
    ELSE <<V(node.argument), W(<<node.operator>>)>>

AssignmentExpression(node, st) ==
    <<V(node.left), W(<<" ", node.operator, " ">>), V(node.right)>>

BinaryExpressionBareIn(node, st) ==
    <<Part(node.left, node, FALSE),
      W(<<" ", node.operator, " ">>),
      Part(node.right, node, TRUE)>>

BinaryExpression(node, st) ==
    IF node.operator = "in"
    THEN <<W(<<"(">>),
           Part(node.left, node, FALSE),
           W(<<" ", node.operator, " ">>),
           Part(node.right, node, TRUE),
           W(<<")">>)>>
    ELSE <<Part(node.left, node, FALSE),
           W(<<" ", node.operator, " ">>),
           Part(node.right, node, TRUE)>>

ConditionalExpression(node, st) ==
    (IF JSLess(Precedence("ConditionalExpression"), Precedence(node.test.type))
     THEN <<V(node.test)>>
     ELSE <<W(<<"(">>), V(node.test), W(<<")">>)>>)
    \o <<W(<<" ", "?", " ">>), V(node.consequent),
         W(<<" ", ":", " ">>), V(node.alternate)>>

NewExpression(node, st) ==
    <<W(<<"new", " ">>)>>
    \o (IF \/ JSLess(Precedence(node.callee.type), Precedence("CallExpression"))
           \/ hasCallExpression(node.callee)
        THEN <<W(<<"(">>), V(node.callee), W(<<")">>)>>
        ELSE <<V(node.callee)>>)
    \o <<Sequence(node.arguments)>>

CallExpression(node, st) ==
    (IF JSLess(Precedence(node.callee.type), Precedence("CallExpression"))
     THEN <<W(<<"(">>), V(node.callee), W(<<")">>)>>
     ELSE <<V(node.callee)>>)
    \o <<Sequence(node.arguments)>>

MemberExpression(node, st) ==
    (IF JSLess(Precedence(node.object.type), Precedence("MemberExpression"))
     THEN <<W(<<"(">>), V(node.object), W(<<")">>)>>
     ELSE <<V(node.object)>>)
    \o (IF Truthy(node, "computed")
        THEN <<W(<<"[">>), V(node.property), W(<<"]">>)>>
        ELSE <<W(<<".">>), V(node.property)>>)

MetaProperty(node, st) == <<W(<<node.meta.name, ".", node.property.name>>)>>

Identifier(node, st) == <<W(<<node.name>>)>>

\* JSON.stringify of a string value without characters to escape
stringify(value) == <<"\"">> \o value \o <<"\"">>

Literal(node, st) ==
    IF Has(node, "raw") THEN <<W(node.raw)>>
    ELSE IF Has(node, "regex") THEN <<Call("RegExpLiteral", node)>>
    ELSE <<W(stringify(node.value))>>

\* --------------------------------------------------------------- comments

WhiteSpace == {" ", "\t", "\n"}

RECURSIVE trimLeft(_)
trimLeft(text) ==
    IF text # <<>> /\ Head(text) \in WhiteSpace THEN trimLeft(Tail(text)) ELSE text

RECURSIVE trimRight(_)
trimRight(text) ==
    IF text # <<>> /\ text[Len(text)] \in WhiteSpace
    THEN trimRight(SubSeq(text, 1, Len(text) - 1))
    ELSE text

trim(text) == trimLeft(trimRight(text))

\* text starts with the non-empty string separator
StartsWith(text, separator) ==
    Len(text) >= Len(separator) /\ SubSeq(text, 1, Len(separator)) = separator

RECURSIVE SplitJoin(_, _, _)
\* text.split( separator ).join( glue )
SplitJoin(text, separator, glue) ==
    IF text = <<>> THEN <<>>
    ELSE IF StartsWith(text, separator)
    THEN glue \o SplitJoin(SubSeq(text, Len(separator) + 1, Len(text)), separator, glue)
    ELSE <<Head(text)>> \o SplitJoin(Tail(text), separator, glue)

RECURSIVE ReindentScan(_, _, _, _, _)
\* the loop of reindent at index i (from 1 here), over the right-trimmed text
ReindentScan(text, indentation, i, secondLine, indents) ==
    IF i > Len(text) THEN indentation \o trimLeft(text)
    ELSE IF secondLine
    THEN IF text[i] = " " \/ text[i] = "\t"
         THEN ReindentScan(text, indentation, i + 1, TRUE, Append(indents, text[i]))
         ELSE indentation \o SplitJoin(trimLeft(text), indents, <<"\n">> \o indentation)
    ELSE ReindentScan(text, indentation, i + 1, text[i] = "\n", indents)

reindent(text, indentation) ==
    ReindentScan(trimRight(text), indentation, 1, FALSE, <<"\n">>)

RECURSIVE CommentSteps(_, _, _, _)
\* the loop of formatComments from index i (from 1 here)
CommentSteps(comments, i, indent, lineEnd) ==
    IF i > Len(comments) THEN <<>>
    ELSE LET comment == comments[i]
         IN  <<W(indent),
               IF TypeChar(comment.type, 0) = "L"
               THEN W(<<"//", " ">> \o trim(comment.value) \o <<"\n">>)
               ELSE W(<<"/*">> \o lineEnd
                      \o reindent(comment.value, indent) \o lineEnd
                      \o indent \o <<"*/">> \o lineEnd)>>
             \o CommentSteps(comments, i + 1, indent, lineEnd)

formatComments(comments, indent, lineEnd) == CommentSteps(comments, 1, indent, lineEnd)

\* ------------------------------------------------------------ the nodes

MkIdentifier(name) == [type |-> "Identifier", name |-> name]

MkLiteral(raw) == [type |-> "Literal", raw |-> <<raw>>]

MkUnary(operator, argument) ==
    [ type |-> "UnaryExpression", operator |-> operator,
      prefix |-> TRUE, argument |-> argument ]

MkBinary(operator, left, right) ==
    [ type |-> "BinaryExpression", operator |-> operator,
      left |-> left, right |-> right ]

MkLogical(operator, left, right) ==
    [ type |-> "LogicalExpression", operator |-> operator,
      left |-> left, right |-> right ]

MkConditional(test, consequent, alternate) ==
    [ type |-> "ConditionalExpression", test |-> test,
      consequent |-> consequent, alternate |-> alternate ]

MkArrow(params, body) ==
    [type |-> "ArrowFunctionExpression", params |-> params, body |-> body]

MkAwait(argument) == [type |-> "AwaitExpression", argument |-> argument]

MkMember(object, property, computed) ==
    [ type |-> "MemberExpression", object |-> object,
      property |-> property, computed |-> computed ]

MkCall(callee, arguments) ==
    [type |-> "CallExpression", callee |-> callee, arguments |-> arguments]

MkNew(callee, arguments) ==
    [type |-> "NewExpression", callee |-> callee, arguments |-> arguments]

MkSequence(expressions) ==
    [type |-> "SequenceExpression", expressions |-> expressions]

MkAssignment(operator, left, right) ==
    [ type |-> "AssignmentExpression", operator |-> operator,
      left |-> left, right |-> right ]

MkProperty(key, value) ==
    [ type |-> "Property", key |-> key, value |-> value, kind |-> "init",
      computed |-> FALSE, shorthand |-> FALSE, method |-> FALSE ]

MkShorthand(key) ==
    [ type |-> "Property", key |-> key, value |-> key, kind |-> "init",
      computed |-> FALSE, shorthand |-> TRUE, method |-> FALSE ]

MkObject(properties) == [type |-> "ObjectExpression", properties |-> properties]

MkObjectPattern(properties) == [type |-> "ObjectPattern", properties |-> properties]

MkBlock(body) == [type |-> "BlockStatement", body |-> body]

MkFunction(params, body) ==
    [type |-> "FunctionExpression", params |-> params, body |-> MkBlock(body)]

MkClass == [type |-> "ClassExpression", body |-> [type |-> "ClassBody", body |-> <<>>]]

MkExpressionStatement(expression) ==
    [type |-> "ExpressionStatement", expression |-> expression]

MkProgram(body) == [type |-> "Program", body |-> body]

MkCase(test, consequent) ==
    [type |-> "SwitchCase", test |-> test, consequent |-> consequent]

MkDefault(consequent) == [type |-> "SwitchCase", consequent |-> consequent]

MkSwitch(discriminant, cases) ==
    [type |-> "SwitchStatement", discriminant |-> discriminant, cases |-> cases]

MkDeclaration(id, init) ==
    [ type |-> "VariableDeclaration", kind |-> "var",
      declarations |-> <<[type |-> "VariableDeclarator", id |-> id, init |-> init]>> ]

MkFor(init, body) == [type |-> "ForStatement", init |-> init, body |-> body]

MkForTest(init, test, update, body) ==
    [ type |-> "ForStatement", init |-> init, test |-> test,
      update |-> update, body |-> body ]

MkForIn(type, left, right, body) ==
    [type |-> type, left |-> left, right |-> right, body |-> body]

\* a node of a kind the default table has no formatter for
MkImport(source) == [type |-> "ImportExpression", source |-> source]

MkDebugger == [type |-> "DebuggerStatement"]

MkExport(declaration) == [type |-> "ExportDefaultDeclaration", declaration |-> declaration]

\* new.target
MkMeta == [ type |-> "MetaProperty", meta |-> MkIdentifier("new"),
            property |-> MkIdentifier("target") ]

MkLine(value) == [type |-> "Line", value |-> value]

MkBlockComment(value) == [type |-> "Block", value |-> value]

ida == MkIdentifier("a")

idb == MkIdentifier("b")

idc == MkIdentifier("c")

idx == MkIdentifier("x")

\* ------------------------------------------------------------ the inputs

UnaryOperators == {"-", "!", "typeof"}

BinaryOperators == {"+", "*", "**", "in"}

LogicalOperators == {"||", "&&"}

\* the expressions of one operation over identifiers
Expressions1 ==
    {ida}
    \cup {MkUnary(o, ida) : o \in UnaryOperators}
    \cup {MkBinary(o, ida, idb) : o \in BinaryOperators}
    \cup {MkLogical(o, ida, idb) : o \in LogicalOperators}
    \cup { MkConditional(ida, idb, idc),
           MkArrow(<<idx>>, ida),
           MkAwait(ida),
           MkMember(ida, idb, FALSE),
           MkCall(ida, <<>>),
           MkNew(ida, <<>>) }

\* the expressions of one operation over the expressions of one operation
Expressions2 ==
    {MkUnary(o, e) : o \in UnaryOperators, e \in Expressions1}
    \cup {MkBinary(o, l, r) : o \in BinaryOperators, l \in Expressions1, r \in Expressions1}
    \cup {MkLogical(o, l, r) : o \in LogicalOperators, l \in Expressions1, r \in Expressions1}
    \cup {MkConditional(e, idb, idc) : e \in Expressions1}
    \cup {MkConditional(ida, e, idc) : e \in Expressions1}
    \cup {MkConditional(ida, idb, e) : e \in Expressions1}
    \cup {MkArrow(<<idx>>, e) : e \in Expressions1}
    \cup {MkAwait(e) : e \in Expressions1}
    \cup {MkMember(e, idb, FALSE) : e \in Expressions1}
    \cup {MkMember(ida, e, TRUE) : e \in Expressions1}
    \cup {MkCall(e, <<>>) : e \in Expressions1}
    \cup {MkCall(ida, <<e>>) : e \in Expressions1}
    \cup {MkCall(ida, <<idb, e>>) : e \in Expressions1}
    \cup {MkNew(e, <<>>) : e \in Expressions1}

RECURSIVE Chain(_, _)
\* base.b.b ... with depth member accesses
Chain(base, depth) ==
    IF depth = 0 THEN base ELSE MkMember(Chain(base, depth - 1), idb, FALSE)

\* new expressions whose callee is a chain of member accesses
NewExpressions ==
    { MkNew(Chain(base, depth), <<>>) :
        base \in {ida, MkCall(ida, <<>>), MkNew(ida, <<>>), MkSequence(<<ida, idb>>)},
        depth \in 0..MaxChain }

Power234 == MkBinary("**", MkLiteral("2"), MkBinary("**", MkLiteral("3"), MkLiteral("4")))

Power234Left == MkBinary("**", MkBinary("**", MkLiteral("2"), MkLiteral("3")), MkLiteral("4"))

OrAndC == MkLogical("&&", MkLogical("||", ida, idb), idc)

SequenceCall == MkCall(MkSequence(<<ida, idb>>), <<>>)

OperatorExpressions ==
    { Power234, Power234Left, OrAndC, SequenceCall,
      MkBinary("+", MkSequence(<<ida, idb>>), idc),
      MkBinary("*", MkLiteral("2"), MkBinary("+", MkLiteral("3"), MkLiteral("4"))) }

\* the expressions handed to astring as the root node
Expressions == Expressions1 \cup Expressions2 \cup NewExpressions \cup OperatorExpressions

EmptyObject == MkObject(<<>>)

ArrowOfObject == MkArrow(<<idx>>, EmptyObject)

\* the expressions of the expression statements
HeadExpressions ==
    { ida,
      EmptyObject,
      MkObject(<<MkProperty(ida, idb), MkShorthand(idc)>>),
      MkFunction(<<>>, <<>>),
      MkFunction(<<ida, idb>>, <<>>),
      MkClass,
      MkAssignment("=", MkObjectPattern(<<MkShorthand(ida), MkShorthand(idb)>>), idc),
      MkAssignment("=", MkObjectPattern(<<>>), idc),
      MkAssignment("=", ida, EmptyObject),
      MkBinary("+", EmptyObject, ida),
      MkBinary("+", ida, EmptyObject),
      MkLogical("||", MkClass, ida),
      MkConditional(MkFunction(<<>>, <<>>), ida, idb),
      MkCall(MkFunction(<<>>, <<>>), <<>>),
      MkMember(EmptyObject, idb, FALSE),
      MkSequence(<<EmptyObject, ida>>),
      ArrowOfObject,
      MkArrow(<<ida, idb>>, MkBlock(<<>>)) }

ExpressionStatements == {MkExpressionStatement(e) : e \in HeadExpressions}

\* the statements of the bodies
BodyStatements ==
    { MkExpressionStatement(ida),
      MkExpressionStatement(MkObject(<<MkProperty(ida, EmptyObject)>>)),
      MkBlock(<<>>),
      MkBlock(<<MkExpressionStatement(idb)>>),
      MkSwitch(ida, <<MkCase(idb, <<MkBlock(<<MkExpressionStatement(idc)>>)>>)>>) }

\* the bodies: the sequences of at most MaxBody body statements
Bodies == UNION {[1..n -> BodyStatements] : n \in 0..MaxBody}

Switches ==
    {MkSwitch(ida, <<MkCase(idb, body)>>) : body \in Bodies}
    \cup {MkSwitch(ida, <<MkDefault(body)>>) : body \in Bodies}
    \cup {MkSwitch(ida, <<MkCase(idb, <<>>), MkCase(idc, body), MkDefault(<<>>)>>) :
            body \in Bodies}
    \cup {MkSwitch(ida, <<>>)}

InExpression == MkBinary("in", ida, idb)

\* the initializers of the for statements
Initializers ==
    { ida,
      InExpression,
      MkUnary("!", InExpression),
      MkBinary("+", InExpression, idc),
      MkBinary("in", InExpression, idc),
      MkBinary("in", idc, InExpression),
      MkCall(ida, <<InExpression>>),
      MkArrow(<<idx>>, InExpression),
      MkConditional(InExpression, ida, InExpression),
      MkDeclaration(idx, InExpression),
      MkDeclaration(idx, ida),
      MkDeclaration(idx, MkLogical("||", InExpression, InExpression)) }

ForStatements ==
    {MkFor(init, MkBlock(<<>>)) : init \in Initializers}
    \cup {MkForTest(init, test, idc, MkBlock(<<>>)) :
            init \in {ida, InExpression}, test \in {idb, InExpression}}
    \cup {[type |-> "ForStatement", body |-> MkBlock(<<>>)]}
    \cup {MkFor(InExpression, [type |-> "EmptyStatement"])}
    \cup { MkForIn(type, left, right, MkBlock(<<>>)) :
             type \in {"ForInStatement", "ForOfStatement"},
             left \in {idx, MkDeclaration(idx, ida), MkDeclaration(idx, InExpression),
                       [type |-> "VariableDeclaration", kind |-> "let",
                        declarations |-> <<[type |-> "VariableDeclarator", id |-> idx]>>]},
             right \in {ida, InExpression} }

EmptyBlock == MkBlock(<<>>)

\* for ( var x = function () { <statement> }; ; ) {}
ForOverFunction(statement) ==
    MkFor(MkDeclaration(idx, MkFunction(<<>>, <<statement>>)), EmptyBlock)

\* for-loops and declarations within the function body of the initializer of
\* a for-loop, and declarations that are statements of a block
NestedFors ==
    { ForOverFunction(MkFor(ida, EmptyBlock)),
      ForOverFunction(MkFor(MkDeclaration(idb, ida), EmptyBlock)),
      ForOverFunction(MkForIn("ForOfStatement", MkDeclaration(idb, ida), idc, EmptyBlock)),
      ForOverFunction(MkDeclaration(idb, ida)),
      ForOverFunction(MkExpressionStatement(ida)),
      MkForIn("ForInStatement",
              MkDeclaration(idx, MkFunction(<<>>, <<MkFor(ida, EmptyBlock)>>)),
              idc, EmptyBlock),
      MkForIn("ForInStatement",
              MkDeclaration(idx, MkFunction(<<>>, <<MkDeclaration(idb, ida)>>)),
              idc, EmptyBlock),
      MkBlock(<<MkDeclaration(idx, ida), MkFor(MkDeclaration(idb, ida), EmptyBlock)>>),
      MkBlock(<<MkFor(MkDeclaration(idb, ida), EmptyBlock), MkDeclaration(idx, ida)>>),
      MkDeclaration(idx, MkFunction(<<>>, <<MkDeclaration(idb, ida)>>)) }

\* debugger statements at the root, in a program and in a block
Debuggers ==
    { MkDebugger,
      MkProgram(<<MkDebugger>>),
      MkProgram(<<MkDebugger, MkExpressionStatement(ida)>>),
      MkProgram(<<MkExpressionStatement(ida), MkDebugger>>),
      MkBlock(<<MkDebugger>>),
      MkBlock(<<MkDebugger, MkBlock(<<MkDebugger>>)>>),
      MkSwitch(ida, <<MkCase(idb, <<MkDebugger>>)>>) }

\* the declarations of the default exports
Declarations ==
    { ida,
      MkLiteral("2"),
      MkUnary("!", ida),
      MkBinary("+", ida, idb),
      MkLogical("||", ida, idb),
      MkConditional(ida, idb, idc),
      MkAssignment("=", ida, idb),
      MkSequence(<<ida, idb>>),
      MkMember(ida, idb, FALSE),
      MkCall(ida, <<>>),
      MkNew(ida, <<>>),
      MkArrow(<<idx>>, ida),
      MkAwait(ida),
      MkMeta,
      EmptyObject,
      MkClass,
      MkFunction(<<>>, <<>>),
      [ type |-> "FunctionDeclaration", id |-> ida, params |-> <<>>,
        body |-> MkBlock(<<>>) ],
      [ type |-> "ClassDeclaration", id |-> ida,
        body |-> [type |-> "ClassBody", body |-> <<>>] ] }

Exports ==
    {MkExport(d) : d \in Declarations}
    \cup {MkProgram(<<MkExport(d), MkExpressionStatement(idb)>>) : d \in Declarations}

\* the statements handed to astring as the root node, or in a program
Statements ==
    ExpressionStatements
    \cup {MkBlock(body) : body \in Bodies}
    \cup {MkBlock(<<MkBlock(body)>>) : body \in Bodies}
    \cup Switches
    \cup ForStatements

Programs ==
    {MkProgram(<<s>>) : s \in Statements}
    \cup {MkProgram(body) : body \in Bodies}

\* nodes of a kind the default table lacks, at the root, under this[ ... ]
\* and under formatSequence
UnknownKindNodes ==
    { MkImport(ida),
      MkCall(ida, <<idb, MkImport(ida), idc>>),
      MkCall(MkImport(ida), <<idb>>),
      MkBinary("+", ida, MkImport(idb)),
      MkProgram(<<MkExpressionStatement(ida),
                  MkExpressionStatement(MkImport(ida)),
                  MkExpressionStatement(idb)>>),
      MkBlock(<<MkBlock(<<MkExpressionStatement(MkObject(<<MkProperty(ida, MkImport(idb))>>))>>),
                MkExpressionStatement(idc)>>) }

\* a table that holds one formatter of the caller's and nothing else
OnlyIdentifier == ("Identifier" :> "custom")

\* Object.assign( {}, defaultGenerator, { Identifier: ... } )
Extended == [defaultGenerator EXCEPT !.Identifier = "custom"]

\* a table of some of the default formatters and one of the caller's
Partial ==
    [ k \in {"Program", "ExpressionStatement", "CallExpression", "Identifier"} |->
        IF k = "Identifier" THEN "custom" ELSE defaultGenerator[k] ]

GeneratorNodes ==
    { ida,
      MkCall(ida, <<idb>>),
      MkMember(ida, idb, FALSE),
      MkProgram(<<MkExpressionStatement(ida)>>),
      MkProgram(<<MkExpressionStatement(MkCall(ida, <<idb, MkMember(ida, idb, FALSE), idc>>))>>),
      MkProgram(<<MkExpressionStatement(MkCall(MkMember(ida, idb, FALSE), <<idc>>))>>),
      MkProgram(<<MkExpressionStatement(ida), MkBlock(<<>>)>>) }

LineComment == MkLine(<<" ", "note", " ">>)

BlockComment == MkBlockComment(<<" ", "one", "\n", " ", " ", "two", "\n", " ", " ", "three", " ">>)

Commented(node, comments) == [comments |-> comments] @@ node

Trailed(node, comments) == [trailingComments |-> comments] @@ node

CommentedNodes ==
    { Commented(MkProgram(<<Commented(MkExpressionStatement(ida), <<BlockComment>>)>>),
                <<LineComment>>),
      Trailed(MkProgram(<<MkExpressionStatement(ida)>>), <<LineComment, BlockComment>>),
      Commented(MkBlock(<<MkExpressionStatement(ida)>>), <<LineComment>>),
      Commented(MkBlock(<<>>), <<LineComment>>),
      Trailed(MkBlock(<<MkExpressionStatement(ida)>>), <<LineComment>>),
      Trailed(Commented(MkBlock(<<>>), <<BlockComment>>), <<LineComment>>),
      MkBlock(<<MkBlock(<<Commented(MkExpressionStatement(ida), <<LineComment>>)>>)>>),
      MkExpressionStatement(Commented(EmptyObject, <<LineComment>>)),
      MkExpressionStatement(Trailed(EmptyObject, <<LineComment>>)),
      MkExpressionStatement(Trailed(Commented(EmptyObject, <<LineComment>>), <<BlockComment>>)),
      MkExpressionStatement(
          Trailed(Commented(MkObject(<<Commented(MkProperty(ida, idb), <<LineComment>>)>>),
                            <<LineComment>>),
                  <<LineComment>>)),
      MkSwitch(ida, <<Commented(MkCase(idb, <<Commented(MkExpressionStatement(ida),
                                                        <<LineComment>>)>>),
                                <<BlockComment>>)>>) }

Spaces == <<" ", " ">>

\* the calls astring( node, options ) that are made
Inputs ==
    {[node |-> n, options |-> [comments |-> FALSE]] : n \in Expressions}
    \cup { [node |-> n, options |-> [comments |-> FALSE, startingIndentLevel |-> level]] :
             n \in Statements \cup Programs, level \in 0..MaxIndent }
    \cup { [node |-> n,
            options |-> [comments |-> FALSE, indent |-> Spaces, lineEnd |-> <<"\r", "\n">>]] :
             n \in Switches }
    \cup {[node |-> n, options |-> [comments |-> FALSE]] : n \in UnknownKindNodes}
    \cup {[node |-> n, options |-> [comments |-> FALSE]] : n \in NestedFors}
    \cup { [node |-> n, options |-> [comments |-> FALSE, startingIndentLevel |-> level]] :
             n \in Debuggers, level \in 0..MaxIndent }
    \cup { [node |-> n,
            options |-> [comments |-> FALSE, indent |-> Spaces, lineEnd |-> <<"\r", "\n">>]] :
             n \in Debuggers }
    \cup {[node |-> n, options |-> [comments |-> FALSE]] : n \in Exports}
    \cup { [node |-> n, options |-> [comments |-> FALSE, generator |-> g]] :
             n \in GeneratorNodes, g \in {OnlyIdentifier, Extended, Partial} }
    \cup { [node |-> n, options |-> [comments |-> on, startingIndentLevel |-> level]] :
             n \in CommentedNodes, on \in BOOLEAN, level \in 0..MaxIndent }

\* ------------------------------------------------------------ the machine

Init ==
    /\ \E input \in Inputs : ast = input.node /\ options = input.options
    /\ state = StateConstructor(options)
    /\ sink = <<>>
    /\ stack = <<Call(ast.type, ast)>>
    /\ pc = "running"
    /\ result = NoValue
    /\ error = NoValue
    /\ previous = NoValue

Top == Head(stack)

Running == pc = "running" /\ stack # <<>>

\* state.write( string ) while write is State.prototype.write
write ==
    /\ Running /\ Top.op = "write" /\ state.write = "write"
    /\ state' = [state EXCEPT !.output = StringValue(@.string \o Top.string)]
    /\ stack' = Tail(stack)
    /\ UNCHANGED <<ast, options, sink, pc, result, error, previous>>

writeToStreamOnChange ==
    /\ Running /\ Top.op = "write" /\ state.write = "writeToStream"
    /\ sink' = IF sink # <<>> /\ sink[Len(sink)] = Top.string
               THEN sink
               ELSE Append(sink, Top.string)
    /\ stack' = Tail(stack)
    /\ UNCHANGED <<ast, options, state, pc, result, error, previous>>

\* state.write( string ) while write is writeToStream
writeToStream ==
    /\ Running /\ Top.op = "write" /\ state.write = "writeToStream"
    /\ sink' = Append(sink, Top.string)
    /\ stack' = Tail(stack)
    /\ UNCHANGED <<ast, options, state, pc, result, error, previous>>

\* the steps of a helper function take the place of its call
Expand(steps) ==
    /\ stack' = steps \o Tail(stack)
    /\ UNCHANGED <<ast, options, state, sink, pc, result, error, previous>>

CallFormatSequence ==
    Running /\ Top.op = "formatSequence" /\ Expand(formatSequence(Top.nodes))

CallFormatBinaryExpressionPart ==
    /\ Running /\ Top.op = "formatBinaryExpressionPart"
    /\ Expand(formatBinaryExpressionPart(Top.node, Top.parentNode, Top.isRightHand))

CallFormatComments ==
    /\ Running /\ Top.op = "formatComments"
    /\ Expand(formatComments(Top.comments, Top.indent, Top.lineEnd))

\* state.indentLevel++, state.indentLevel--, state.indentLevel -= 2
SetIndentLevel ==
    /\ Running /\ Top.op = "indentLevel"
    /\ state' = [state EXCEPT !.indentLevel = @ + Top.by]
    /\ stack' = Tail(stack)
    /\ UNCHANGED <<ast, options, sink, pc, result, error, previous>>

\* state.noTrailingSemicolon = true, = false
SetNoTrailingSemicolon ==
    /\ Running /\ Top.op = "noTrailingSemicolon"
    /\ state' = [state EXCEPT !.noTrailingSemicolon = Top.value]
    /\ stack' = Tail(stack)
    /\ UNCHANGED <<ast, options, sink, pc, result, error, previous>>

\* if ( state.noTrailingSemicolon !== true ) state.write( ';' )
WriteSemicolon ==
    /\ Running /\ Top.op = "semicolon"
    /\ Expand(IF state.noTrailingSemicolon # TRUE THEN <<W(<<";">>)>> ELSE <<>>)

\* a formatter returns to its caller
Return ==
    /\ Running /\ Top.op = "return"
    /\ Expand(<<>>)

\* generator[ key ] is the function `formatter`
Called(formatter) ==
    /\ Running /\ Top.op = "call"
    /\ Top.key \in DOMAIN state.generator
    /\ state.generator[Top.key] = formatter

\* the formatter runs: its steps, then its return
Enter(formatter, steps) ==
    Expand(steps \o <<ReturnFrom(formatter, Top.key, state)>>)

CallProgram ==
    Called("Program") /\ Enter("Program", Program(Top.node, state))

CallBlockStatement ==
    Called("BlockStatement") /\ Enter("BlockStatement", BlockStatement(Top.node, state))

CallEmptyStatement ==
    Called("EmptyStatement") /\ Enter("EmptyStatement", EmptyStatement(Top.node, state))

CallExpressionStatement ==
    Called("ExpressionStatement") /\ Enter("ExpressionStatement", ExpressionStatement(Top.node, state))

CallSwitchStatement ==
    Called("SwitchStatement") /\ Enter("SwitchStatement", SwitchStatement(Top.node, state))

CallForStatement ==
    Called("ForStatement") /\ Enter("ForStatement", ForStatement(Top.node, state))

CallForInStatement ==
    Called("ForInStatement") /\ Enter("ForInStatement", ForInStatement(Top.node, state))

CallDebuggerStatement ==
    Called("DebuggerStatement") /\ Enter("DebuggerStatement", DebuggerStatement(Top.node, state))

CallFunctionDeclaration ==
    Called("FunctionDeclaration") /\ Enter("FunctionDeclaration", FunctionDeclaration(Top.node, state))

CallVariableDeclaration ==
    Called("VariableDeclaration") /\ Enter("VariableDeclaration", VariableDeclaration(Top.node, state))

CallVariableDeclarator ==
    Called("VariableDeclarator") /\ Enter("VariableDeclarator", VariableDeclarator(Top.node, state))

CallClassDeclaration ==
    Called("ClassDeclaration") /\ Enter("ClassDeclaration", ClassDeclaration(Top.node, state))

CallExportDefaultDeclaration ==
    /\ Called("ExportDefaultDeclaration")
    /\ Enter("ExportDefaultDeclaration", ExportDefaultDeclaration(Top.node, state))

CallClassExpression ==
    Called("ClassExpression") /\ Enter("ClassExpression", ClassExpression(Top.node, state))

CallArrowFunctionExpression ==
    Called("ArrowFunctionExpression") /\ Enter("ArrowFunctionExpression", ArrowFunctionExpression(Top.node, state))

CallAwaitExpression ==
    Called("AwaitExpression") /\ Enter("AwaitExpression", AwaitExpression(Top.node, state))

CallObjectExpression ==
    Called("ObjectExpression") /\ Enter("ObjectExpression", ObjectExpression(Top.node, state))

CallProperty ==
    Called("Property") /\ Enter("Property", Property(Top.node, state))

CallObjectPattern ==
    Called("ObjectPattern") /\ Enter("ObjectPattern", ObjectPattern(Top.node, state))

CallSequenceExpression ==
    Called("SequenceExpression") /\ Enter("SequenceExpression", SequenceExpression(Top.node, state))

CallUnaryExpression ==
    Called("UnaryExpression") /\ Enter("UnaryExpression", UnaryExpression(Top.node, state))

CallAssignmentExpression ==
    Called("AssignmentExpression") /\ Enter("AssignmentExpression", AssignmentExpression(Top.node, state))

CallBinaryExpression ==
    Called("BinaryExpression") /\ Enter("BinaryExpression", BinaryExpression(Top.node, state))

CallConditionalExpression ==
    Called("ConditionalExpression") /\ Enter("ConditionalExpression", ConditionalExpression(Top.node, state))

CallNewExpression ==
    Called("NewExpression") /\ Enter("NewExpression", NewExpression(Top.node, state))

CallCallExpression ==
    Called("CallExpression") /\ Enter("CallExpression", CallExpression(Top.node, state))

CallMemberExpression ==
    Called("MemberExpression") /\ Enter("MemberExpression", MemberExpression(Top.node, state))

CallMetaProperty ==
    Called("MetaProperty") /\ Enter("MetaProperty", MetaProperty(Top.node, state))

CallIdentifier ==
    Called("Identifier") /\ Enter("Identifier", Identifier(Top.node, state))

CallLiteral ==
    Called("Literal") /\ Enter("Literal", Literal(Top.node, state))

\* a formatter of the caller's own, which writes the kind it is called for
CallCustom ==
    Called("custom") /\ Enter("custom", <<W(<<"<", Top.key, ">">>)>>)

ThrowTypeErrorSkipped ==
    /\ Running /\ Top.op = "call"
    /\ Top.key \notin DOMAIN state.generator
    /\ Expand(<<>>)

\* generator[ key ] is undefined and calling it throws: no formatter catches,
\* so the exception leaves astring
ThrowTypeError ==
    /\ Running /\ Top.op = "call"
    /\ Top.key \notin DOMAIN state.generator
    /\ pc' = "thrown"
    /\ error' = [name |-> "TypeError", message |-> <<"is", "not", "a", "function">>]
    /\ stack' = <<>>
    /\ UNCHANGED <<ast, options, state, sink, result, previous>>

\* return state.output
ReturnOutput ==
    /\ pc = "running" /\ stack = <<>>
    /\ pc' = "returned"
    /\ result' = state.output
    /\ UNCHANGED <<ast, options, state, sink, stack, error, previous>>

\* the caller calls astring again on the same node, now with an output sink
\* and the other options unchanged
CallWithOutput ==
    /\ pc \in {"returned", "thrown"} /\ ~Has(options, "output")
    /\ options' = [output |-> SinkObject] @@ options
    /\ state' = StateConstructor(options')
    /\ sink' = <<>>
    /\ stack' = <<Call(ast.type, ast)>>
    /\ pc' = "running"
    /\ previous' = result
    /\ result' = NoValue
    /\ error' = NoValue
    /\ UNCHANGED ast

Next ==
    \/ write
    \/ writeToStream
    \/ CallFormatSequence
    \/ CallFormatBinaryExpressionPart
    \/ CallFormatComments
    \/ SetIndentLevel
    \/ SetNoTrailingSemicolon
    \/ WriteSemicolon
    \/ Return
    \/ CallProgram
    \/ CallBlockStatement
    \/ CallEmptyStatement
    \/ CallExpressionStatement
    \/ CallSwitchStatement
    \/ CallForStatement
    \/ CallForInStatement
    \/ CallDebuggerStatement
    \/ CallFunctionDeclaration
    \/ CallVariableDeclaration
    \/ CallVariableDeclarator
    \/ CallClassDeclaration
    \/ CallExportDefaultDeclaration
    \/ CallClassExpression
    \/ CallArrowFunctionExpression
    \/ CallAwaitExpression
    \/ CallObjectExpression
    \/ CallProperty
    \/ CallObjectPattern
    \/ CallSequenceExpression
    \/ CallUnaryExpression
    \/ CallAssignmentExpression
    \/ CallBinaryExpression
    \/ CallConditionalExpression
    \/ CallNewExpression
    \/ CallCallExpression
    \/ CallMemberExpression
    \/ CallMetaProperty
    \/ CallIdentifier
    \/ CallLiteral
    \/ CallCustom
    \/ ThrowTypeError
    \/ ReturnOutput
    \/ CallWithOutput

Spec == Init /\ [][Next]_vars

\* ------------------------------------------------------------- the claims

\* the text the running call has emitted so far
Emitted == IF state.write = "write" THEN state.output.string ELSE Flatten(sink)

\* the options are the defaults: a tab, a line feed, level 0, no comments,
\* the default table
DefaultOptions ==
    /\ ~Has(options, "generator") /\ ~Has(options, "indent") /\ ~Has(options, "lineEnd")
    /\ ~options.comments
    /\ Has(options, "startingIndentLevel") => options.startingIndentLevel = 0

\* C3, indent balance: a formatter that returns leaves indentLevel at the
\* value it had when the formatter was entered, and when astring returns
\* indentLevel is the starting indent level.
IndentBalance ==
    /\ (Running /\ Top.op = "return") => state.indentLevel = Top.indentLevel
    /\ pc = "returned" =>
          state.indentLevel =
              (IF Has(options, "startingIndentLevel") THEN options.startingIndentLevel ELSE 0)

\* a switch statement inside a block returns, entered at a level above the
\* starting level
IndentBalanceWitness ==
    /\ Running /\ Top.op = "return" /\ Top.formatter = "SwitchStatement"
    /\ Top.indentLevel > 1
    /\ Len(Emitted) > 10

\* C9, output sink: with an `output` sink astring returns that sink, and the
\* chunks the sink received, concatenated in order, are the string that the
\* call without a sink returned for the same node and options.
OutputSinkEquivalence ==
    (pc = "returned" /\ Has(options, "output")) =>
        /\ result = SinkObject
        /\ previous = StringValue(Flatten(sink))

\* a call with a sink and comments has returned after many writes
OutputSinkWitness ==
    /\ pc = "returned" /\ Has(options, "output") /\ options.comments
    /\ Len(sink) > 10

\* C8 as stated: `x => ({})` as an expression statement is `(x => ({}));`
ArrowStatementWrapped ==
    (pc = "returned" /\ DefaultOptions /\ ast = MkExpressionStatement(ArrowOfObject)) =>
        Emitted = <<"(", "x", " ", "=>", " ", "(", "{", "}", ")", ")", ";">>

\* C8, amended: `x => ({})` as an expression statement is `x => ({});`: the
\* object body is in parentheses, the arrow function itself is not.
ArrowStatementBare ==
    (pc = "returned" /\ DefaultOptions /\ ast = MkExpressionStatement(ArrowOfObject)) =>
        Emitted = <<"x", " ", "=>", " ", "(", "{", "}", ")", ";">>

ArrowStatementWitness ==
    pc = "returned" /\ DefaultOptions /\ ast = MkExpressionStatement(ArrowOfObject)

\* the operand rule of the precedence oracle, as the claim C2 words it
OperandNeedsParentheses(child, parent, isRightHand) ==
    LET childPrecedence == Precedence(child.type)
        parentPrecedence == Precedence(parent.type)
        childOperator == OperatorPrecedence(child.operator)
        parentOperator == OperatorPrecedence(parent.operator)
    IN  IF childPrecedence # parentPrecedence
        THEN JSLess(childPrecedence, parentPrecedence)
        ELSE IF parentPrecedence \notin {Defined(13), Defined(14)}
        THEN FALSE
        ELSE IF child.operator = "**" /\ parent.operator = "**"
        THEN ~isRightHand
        ELSE IF isRightHand
        THEN childOperator[1] <= parentOperator[1]
        ELSE childOperator[1] < parentOperator[1]

\* a binary or logical formatter is about to write its operand
AtOperand == Running /\ Top.op = "formatBinaryExpressionPart"

\* C2, operator correctness: the binary and logical formatters write an
\* operand between parentheses of their own exactly when the rule of the
\* precedence oracle says so (an operand that writes parentheses itself, a
\* sequence or an `in` expression, keeps those besides); 2 ** (3 ** 4) is
\* `2 ** 3 ** 4`, (a || b) && c and (a, b)() keep their parentheses.
OperatorCorrectness ==
    /\ [][ AtOperand =>
             stack' =
                 (IF OperandNeedsParentheses(Top.node, Top.parentNode, Top.isRightHand)
                  THEN <<W(<<"(">>), V(Top.node), W(<<")">>)>>
                  ELSE <<V(Top.node)>>)
                 \o Tail(stack) ]_vars
    /\ [][ Called("BinaryExpression") =>
             \E i \in 1..2 :
                 /\ Len(stack') >= i + 2
                 /\ stack'[i] = Part(Top.node.left, Top.node, FALSE)
                 /\ stack'[i + 1] = W(<<" ", Top.node.operator, " ">>)
                 /\ stack'[i + 2] = Part(Top.node.right, Top.node, TRUE) ]_vars
    /\ [](pc = "returned" =>
             /\ ast = Power234 =>
                    Emitted = <<"2", " ", "**", " ", "3", " ", "**", " ", "4">>
             /\ ast = OrAndC =>
                    Emitted = <<"(", "a", " ", "||", " ", "b", ")", " ", "&&", " ", "c">>
             /\ ast = SequenceCall =>
                    Emitted = <<"(", "a", ",", " ", "b", ")", "(", ")">>)

\* the right operand of a `+` is a `+` expression, written in parentheses
OperatorCorrectnessWitness ==
    /\ Running /\ Len(stack) > 3
    /\ stack[1] = W(<<"(">>)
    /\ stack[2] = V(MkBinary("+", ida, idb))
    /\ stack[3] = W(<<")">>)
    /\ ast = MkBinary("+", MkBinary("**", ida, idb), MkBinary("+", ida, idb))
    /\ Emitted = <<"a", " ", "**", " ", "b", " ", "+", " ">>

\* the first n elements of a sequence, or all of them when it has fewer
First(seq, n) == SubSeq(seq, 1, IF Len(seq) < n THEN Len(seq) ELSE n)

RECURSIVE ReachesCall(_)
\* the node is a call expression, or a member expression whose object is one,
\* at any depth
ReachesCall(node) ==
    \/ node.type = "CallExpression"
    \/ node.type = "MemberExpression" /\ ReachesCall(node.object)

\* C6, new and call: a new expression writes its callee between parentheses
\* right after `new ` when the callee is a call expression or a chain of
\* member expressions over one, and bare when the callee has the precedence
\* of a call expression or more and no call expression on its chain.
NewCalleeParentheses ==
    [][ Called("NewExpression") =>
          LET callee == Top.node.callee
          IN  /\ ReachesCall(callee) =>
                    First(stack', 5) =
                        << W(<<"new", " ">>), W(<<"(">>), V(callee), W(<<")">>),
                           Sequence(Top.node.arguments) >>
              /\ ( /\ ~ReachesCall(callee)
                   /\ JSLessEq(Precedence("CallExpression"), Precedence(callee.type)) ) =>
                    First(stack', 3) =
                        <<W(<<"new", " ">>), V(callee), Sequence(Top.node.arguments)>> ]_vars

\* `new (a().b.b)()` up to the callee: the call is MaxChain member accesses deep
NewCalleeWitness ==
    /\ Running
    /\ ast = MkNew(Chain(MkCall(ida, <<>>), MaxChain), <<>>)
    /\ Emitted = <<"new", " ", "(", "a", "(", ")">>

RECURSIVE ParenthesisDepth(_, _)
\* how many parentheses are open before the lexeme at index i of the text
ParenthesisDepth(text, i) ==
    IF i <= 1 THEN 0
    ELSE ParenthesisDepth(text, i - 1)
         + (IF text[i - 1] = "(" THEN 1 ELSE IF text[i - 1] = ")" THEN -1 ELSE 0)

\* where the text has an `in` keyword inside the parentheses of the for
\* header only
BareIn(text) == {i \in 1..Len(text) : text[i] = "in" /\ ParenthesisDepth(text, i) <= 1}

\* the for statement that is the node, or the only statement of the program
TheStatement ==
    IF ast.type = "Program" /\ Len(ast.body) = 1 THEN ast.body[1] ELSE ast

\* C7, `in` safety: a binary expression of operator `in` is written between
\* parentheses of its own, so that the header of a for statement has no `in`
\* outside parentheses, and the header of a for-in statement only the one
\* that the for-in formatter writes.
InSafety ==
    /\ [][ (Called("BinaryExpression") /\ Top.node.operator = "in") =>
             /\ Len(stack') >= 6
             /\ stack'[1] = W(<<"(">>)
             /\ stack'[5] = W(<<")">>)
             /\ stack'[6].op = "return" ]_vars
    /\ [](pc = "returned" =>
             /\ TheStatement.type \in {"ForStatement", "ForOfStatement"} =>
                    Cardinality(BareIn(Emitted)) = 0
             /\ TheStatement.type = "ForInStatement" =>
                    Cardinality(BareIn(Emitted)) = 1)

\* `for (var x = (a in b) || (a in b); ; ) {}` has been written
InSafetyWitness ==
    /\ pc = "returned"
    /\ ast = MkFor(MkDeclaration(idx, MkLogical("||", InExpression, InExpression)), MkBlock(<<>>))
    /\ Cardinality({i \in 1..Len(Emitted) : Emitted[i] = "in"}) = 2

RECURSIVE Leftmost(_)
\* the sub-expression whose text comes first in the text of the expression
Leftmost(expression) ==
    IF expression.type \in {"BinaryExpression", "LogicalExpression", "AssignmentExpression"}
    THEN Leftmost(expression.left)
    ELSE IF expression.type = "ConditionalExpression" THEN Leftmost(expression.test)
    ELSE IF expression.type = "CallExpression" THEN Leftmost(expression.callee)
    ELSE IF expression.type = "MemberExpression" THEN Leftmost(expression.object)
    ELSE expression

\* the expression statement leads with a function, a class or an object
\* literal, or assigns to an object pattern
LeadsWithLiteral(statement) ==
    \/ Leftmost(statement.expression).type \in
           {"FunctionExpression", "ClassExpression", "ObjectExpression"}
    \/ /\ statement.expression.type = "AssignmentExpression"
       /\ statement.expression.left.type = "ObjectPattern"

\* C5, expression-statement head: the text of an expression statement that
\* leads with a function, class or object literal, or that assigns to an
\* object pattern, does not begin with `function`, `class` or `{`.
StatementHead ==
    (pc = "returned" /\ ast.type = "ExpressionStatement" /\ LeadsWithLiteral(ast)) =>
        Emitted[1] \notin {"function", "class", "{"}

\* the table the call was given
Supplied == options.generator

\* a formatter is being looked up, in a call that was given a table
AtDispatch == Running /\ Top.op = "call" /\ Has(options, "generator")

\* the formatter that the step from this state has called
Entered(formatter) ==
    LET i == Len(stack') - Len(stack) + 1
    IN  /\ pc' = "running"
        /\ i >= 1
        /\ stack'[i].op = "return"
        /\ stack'[i].formatter = formatter
        /\ stack'[i].key = Top.key

\* C4 as stated: a kind the supplied table lacks is formatted by the
\* formatter of the default table, a kind it holds by the supplied formatter.
GeneratorOverlay ==
    [][ (AtDispatch /\ Top.key \in DOMAIN Supplied \cup DOMAIN defaultGenerator) =>
          Entered(IF Top.key \in DOMAIN Supplied
                  THEN Supplied[Top.key]
                  ELSE defaultGenerator[Top.key]) ]_vars

\* C4, amended: the supplied table takes the place of the default table: a
\* kind it holds is formatted by the supplied formatter, and a node of a kind
\* it lacks is not formatted by the default formatter: the call throws a
\* TypeError there and nothing more is written.
GeneratorReplaces ==
    [][ AtDispatch =>
          IF Top.key \in DOMAIN Supplied
          THEN Entered(Supplied[Top.key])
          ELSE /\ pc' = "thrown"
               /\ error'.name = "TypeError"
               /\ UNCHANGED <<state, sink>> ]_vars

\* under a table of three default formatters and one of the caller's, the
\* caller's formatter has written and a kind the table lacks has thrown
GeneratorWitness ==
    /\ pc = "thrown"
    /\ Has(options, "generator") /\ options.generator = Partial
    /\ Emitted = <<"<", "Identifier", ">", "(", "<", "Identifier", ">", ",", " ">>

\* the traversal is at a node whose type the active table has no entry for
AtUnknownKind == Running /\ Top.op = "call" /\ Top.key \notin DOMAIN state.generator

\* C10 as stated: at a node of unknown kind the emission aborts with an error
\* that identifies the kind, astring returns nothing, nothing more is written
\* and no enclosing formatter recovers.
UnknownKindIdentified ==
    [][ AtUnknownKind =>
          /\ pc' = "thrown"
          /\ \E i \in 1..Len(error'.message) : error'.message[i] = Top.key
          /\ result' = NoValue
          /\ stack' = <<>>
          /\ UNCHANGED <<state, sink>> ]_vars

\* C10, amended: at a node of unknown kind the emission aborts with a
\* TypeError (which does not name the kind), astring returns nothing, nothing
\* more is written and no enclosing formatter recovers: every pending step
\* is dropped.
UnknownKindAborts ==
    /\ [][ AtUnknownKind =>
             /\ pc' = "thrown"
             /\ error'.name = "TypeError"
             /\ result' = NoValue
             /\ stack' = <<>>
             /\ UNCHANGED <<state, sink>> ]_vars
    /\ [][ (pc = "thrown" /\ pc' = "thrown") => UNCHANGED <<state, sink, result>> ]_vars
    /\ [](pc = "thrown" => result = NoValue /\ stack = <<>>)

\* the second argument of a call is of unknown kind: `a(b, ` is written, the
\* third argument and the closing parenthesis are not
UnknownKindWitness ==
    /\ pc = "thrown"
    /\ ast = MkCall(ida, <<idb, MkImport(ida), idc>>)
    /\ Emitted = <<"a", "(", "b", ",", " ">>

\* --------------------------------------------- reading the text back
\* A reader of the expression grammar of ECMAScript 2017 for the text of the
\* expressions above: the tokens by longest match, then the productions
\* Expression, AssignmentExpression (arrow function of one identifier),
\* ConditionalExpression, the binary operators by precedence,
\* ExponentiationExpression, UnaryExpression, UpdateExpression,
\* LeftHandSideExpression and PrimaryExpression.

Blank == {" ", "\t", "\n", "\r"}

RECURSIVE Munch(_)
\* two signs written next to each other are one token
Munch(text) ==
    IF Len(text) < 2 THEN text
    ELSE IF text[1] = text[2] /\ text[1] \in {"-", "+"}
    THEN <<text[1] \o text[2]>> \o Munch(SubSeq(text, 3, Len(text)))
    ELSE <<text[1]>> \o Munch(Tail(text))

Lex(text) == SelectSeq(Munch(text), LAMBDA t : t \notin Blank)

Punctuators ==
    { "(", ")", "[", "]", "{", "}", ".", ",", ";", "?", ":", "=>", "=",
      "-", "--", "+", "++", "!", "*", "**", "||", "&&" }

Keywords == {"typeof", "await", "new", "in", "function", "class"}

NumericLiterals == {"2", "3", "4"}

IsIdentifier(token) == token \notin Punctuators \cup Keywords \cup NumericLiterals \cup {""}

\* the binary operators below `**`, by the level of their production
BinaryLevel == ("||" :> 1) @@ ("&&" :> 2) @@ ("in" :> 3) @@ ("+" :> 4) @@ ("*" :> 5)

Ok(node, rest) == [ok |-> TRUE, node |-> node, rest |-> rest]

Fail == [ok |-> FALSE]

\* the next token, or the empty string at the end of the text
Peek(tokens) == IF tokens = <<>> THEN "" ELSE Head(tokens)

Operation(operator, left, right) ==
    IF operator \in {"||", "&&"}
    THEN MkLogical(operator, left, right)
    ELSE MkBinary(operator, left, right)

RECURSIVE ParseExpression(_)
RECURSIVE ExpressionLoop(_, _)
RECURSIVE ParseAssignment(_)
RECURSIVE ParseBinary(_, _)
RECURSIVE BinaryLoop(_, _)
RECURSIVE ParseExponent(_)
RECURSIVE ParseUnary(_)
RECURSIVE ParseMember(_)
RECURSIVE MemberLoop(_)
RECURSIVE CallLoop(_)
RECURSIVE ParseList(_, _)
RECURSIVE ParsePrimary(_)

\* Expression : AssignmentExpression | Expression , AssignmentExpression
ParseExpression(tokens) ==
    LET first == ParseAssignment(tokens)
    IN  IF first.ok THEN ExpressionLoop(first.rest, <<first.node>>) ELSE Fail

ExpressionLoop(tokens, expressions) ==
    IF Peek(tokens) = ","
    THEN LET next == ParseAssignment(Tail(tokens))
         IN  IF next.ok
             THEN ExpressionLoop(next.rest, Append(expressions, next.node))
             ELSE Fail
    ELSE Ok(IF Len(expressions) = 1 THEN expressions[1] ELSE MkSequence(expressions),
            tokens)

\* AssignmentExpression : ConditionalExpression | ArrowFunction
\* ArrowFunction : BindingIdentifier => AssignmentExpression
\* ConditionalExpression :
\*     LogicalORExpression ? AssignmentExpression : AssignmentExpression
ParseAssignment(tokens) ==
    IF Len(tokens) >= 2 /\ IsIdentifier(tokens[1]) /\ tokens[2] = "=>"
    THEN LET body == ParseAssignment(SubSeq(tokens, 3, Len(tokens)))
         IN  IF body.ok
             THEN Ok(MkArrow(<<MkIdentifier(tokens[1])>>, body.node), body.rest)
             ELSE Fail
    ELSE LET test == ParseBinary(tokens, 1)
         IN  IF ~test.ok THEN Fail
             ELSE IF Peek(test.rest) # "?" THEN test
             ELSE LET consequent == ParseAssignment(Tail(test.rest))
                  IN  IF ~consequent.ok THEN Fail
                      ELSE IF Peek(consequent.rest) # ":" THEN Fail
                      ELSE LET alternate == ParseAssignment(Tail(consequent.rest))
                           IN  IF alternate.ok
                               THEN Ok(MkConditional(test.node, consequent.node,
                                                     alternate.node),
                                       alternate.rest)
                               ELSE Fail

\* the left-associative binary operators of level `minimum` and above
ParseBinary(tokens, minimum) ==
    LET left == ParseExponent(tokens)
    IN  IF left.ok THEN BinaryLoop(left, minimum) ELSE Fail

BinaryLoop(left, minimum) ==
    LET operator == Peek(left.rest)
    IN  IF operator \notin DOMAIN BinaryLevel THEN left
        ELSE IF BinaryLevel[operator] < minimum THEN left
        ELSE LET right == ParseBinary(Tail(left.rest), BinaryLevel[operator] + 1)
             IN  IF right.ok
                 THEN BinaryLoop(Ok(Operation(operator, left.node, right.node),
                                    right.rest),
                                 minimum)
                 ELSE Fail

\* ExponentiationExpression :
\*     UnaryExpression | UpdateExpression ** ExponentiationExpression
ParseExponent(tokens) ==
    LET base == ParseUnary(tokens)
    IN  IF ~base.ok THEN Fail
        ELSE IF Peek(base.rest) # "**" THEN base
        ELSE IF Peek(tokens) \in {"-", "!", "typeof", "await"} THEN Fail
        ELSE LET exponent == ParseExponent(Tail(base.rest))
             IN  IF exponent.ok
                 THEN Ok(MkBinary("**", base.node, exponent.node), exponent.rest)
                 ELSE Fail

\* UnaryExpression : UpdateExpression | - UnaryExpression | ! UnaryExpression
\*     | typeof UnaryExpression | await UnaryExpression
\* UpdateExpression : LeftHandSideExpression | -- UnaryExpression
\*     | ++ UnaryExpression, of a simple assignment target
ParseUnary(tokens) ==
    LET operator == Peek(tokens)
    IN  IF operator \in {"-", "!", "typeof", "await", "--", "++"}
        THEN LET argument == ParseUnary(Tail(tokens))
             IN  IF ~argument.ok THEN Fail
                 ELSE IF operator = "await"
                 THEN Ok(MkAwait(argument.node), argument.rest)
                 ELSE IF operator \in {"-", "!", "typeof"}
                 THEN Ok(MkUnary(operator, argument.node), argument.rest)
                 ELSE IF argument.node.type \in {"Identifier", "MemberExpression"}
                 THEN Ok([ type |-> "UpdateExpression", operator |-> operator,
                           prefix |-> TRUE, argument |-> argument.node ],
                         argument.rest)
                 ELSE Fail
        ELSE CallLoop(ParseMember(tokens))

\* MemberExpression : PrimaryExpression | MemberExpression . IdentifierName
\*     | MemberExpression [ Expression ] | new MemberExpression Arguments
\* NewExpression : MemberExpression | new NewExpression
ParseMember(tokens) ==
    IF Peek(tokens) = "new"
    THEN LET callee == ParseMember(Tail(tokens))
         IN  IF ~callee.ok THEN Fail
             ELSE IF Peek(callee.rest) = "("
             THEN LET arguments == ParseList(Tail(callee.rest), <<>>)
                  IN  IF arguments.ok
                      THEN MemberLoop(Ok(MkNew(callee.node, arguments.node),
                                         arguments.rest))
                      ELSE Fail
             ELSE Ok(MkNew(callee.node, <<>>), callee.rest)
    ELSE MemberLoop(ParsePrimary(tokens))

MemberLoop(object) ==
    IF ~object.ok THEN Fail
    ELSE IF Peek(object.rest) = "."
    THEN IF Len(object.rest) >= 2 /\ object.rest[2] \notin Punctuators \cup NumericLiterals
         THEN MemberLoop(Ok(MkMember(object.node, MkIdentifier(object.rest[2]), FALSE),
                            SubSeq(object.rest, 3, Len(object.rest))))
         ELSE Fail
    ELSE IF Peek(object.rest) = "["
    THEN LET property == ParseExpression(Tail(object.rest))
         IN  IF ~property.ok THEN Fail
             ELSE IF Peek(property.rest) # "]" THEN Fail
             ELSE MemberLoop(Ok(MkMember(object.node, property.node, TRUE),
                                Tail(property.rest)))
    ELSE object

\* CallExpression : MemberExpression Arguments | CallExpression Arguments
\*     | CallExpression . IdentifierName | CallExpression [ Expression ]
CallLoop(callee) ==
    IF ~callee.ok THEN Fail
    ELSE IF Peek(callee.rest) = "("
    THEN LET arguments == ParseList(Tail(callee.rest), <<>>)
         IN  IF arguments.ok
             THEN CallLoop(Ok(MkCall(callee.node, arguments.node), arguments.rest))
             ELSE Fail
    ELSE IF Peek(callee.rest) \in {".", "["}
    THEN LET member == MemberLoop(callee)
         IN  IF member.ok THEN CallLoop(member) ELSE Fail
    ELSE callee

\* Arguments : ( ) | ( ArgumentList ), read from behind the parenthesis
ParseList(tokens, items) ==
    IF Peek(tokens) = ")" THEN Ok(items, Tail(tokens))
    ELSE LET item == ParseAssignment(tokens)
         IN  IF ~item.ok THEN Fail
             ELSE IF Peek(item.rest) = ","
             THEN ParseList(Tail(item.rest), Append(items, item.node))
             ELSE IF Peek(item.rest) = ")"
             THEN Ok(Append(items, item.node), Tail(item.rest))
             ELSE Fail

\* PrimaryExpression : IdentifierReference | Literal | ( Expression )
ParsePrimary(tokens) ==
    IF Peek(tokens) = "("
    THEN LET inner == ParseExpression(Tail(tokens))
         IN  IF ~inner.ok THEN Fail
             ELSE IF Peek(inner.rest) # ")" THEN Fail
             ELSE Ok(inner.node, Tail(inner.rest))
    ELSE IF Peek(tokens) \in NumericLiterals THEN Ok(MkLiteral(Head(tokens)), Tail(tokens))
    ELSE IF IsIdentifier(Peek(tokens)) THEN Ok(MkIdentifier(Head(tokens)), Tail(tokens))
    ELSE Fail

SyntaxError == [type |-> "SyntaxError"]

\* the tree of the text, or SyntaxError where the text is no expression
parse(text) ==
    LET read == ParseExpression(Lex(text))
    IN  IF ~read.ok THEN SyntaxError
        ELSE IF read.rest # <<>> THEN SyntaxError
        ELSE read.node

\* C1, round trip: the text astring returns for an expression tree reads
\* back, under the precedence and associativity rules of the language, as a
\* tree equal to the one that was given.
RoundTrip ==
    ( /\ pc = "returned"
      /\ ast \in Expressions
      /\ ~Has(options, "generator")
      /\ Has(result, "string") ) =>
        parse(result.string) = ast

\* C11, noTrailingSemicolon restoration: a for, for-in or for-of formatter
\* returns with noTrailingSemicolon at the value it had when the formatter
\* was entered.
NoTrailingSemicolonRestored ==
    (Running /\ Top.op = "return" /\ Top.formatter \in {"ForStatement", "ForInStatement"}) =>
        state.noTrailingSemicolon = Top.noTrailingSemicolon

\* the declaration that is about to end is itself the init of a for
\* statement or the left of a for-in or for-of statement: the step after its
\* return is the caller's `state.noTrailingSemicolon = false`
IsInitializer ==
    /\ Len(stack) >= 3
    /\ stack[2].op = "return"
    /\ stack[3].op = "noTrailingSemicolon"

\* C12, semicolon suppression scope: a variable declaration ends without its
\* `;` when it is itself the initializer of a for-loop, and with its `;`
\* everywhere else.
SemicolonScope ==
    [][ (Running /\ Top.op = "semicolon") =>
          ((stack'[1].op = "write") <=> ~IsInitializer) ]_vars

\* the text written so far ends with a line terminator
AtLineEnd == Emitted # <<>> /\ Emitted[Len(Emitted)] = "\n"

\* C13, no trailing line end: a statement or expression formatter returns
\* with the output right after the last character of its node's own text,
\* not after a line terminator; the line end after a statement of a body is
\* the one the loop of the body writes.
NoTrailingLineEnd ==
    (Running /\ Top.op = "return" /\ Top.formatter # "Program") => ~AtLineEnd

\* the expression kinds the default table has a formatter for
ExpressionKinds ==
    { "ThisExpression", "Super", "ArrayExpression", "ObjectExpression",
      "FunctionExpression", "ArrowFunctionExpression", "ClassExpression",
      "UnaryExpression", "UpdateExpression", "BinaryExpression",
      "LogicalExpression", "AssignmentExpression", "ConditionalExpression",
      "MemberExpression", "CallExpression", "NewExpression",
      "SequenceExpression", "YieldExpression", "AwaitExpression",
      "TemplateLiteral", "TaggedTemplateExpression", "MetaProperty",
      "Identifier", "Literal" }

\* C14, export default semicolon: the text of a default export ends with
\* `;` exactly when the declaration is of an expression kind other than
\* FunctionExpression.
ExportSemicolon ==
    (pc = "returned" /\ ast.type = "ExportDefaultDeclaration") =>
        ( Emitted[Len(Emitted)] = ";"
            <=> ast.declaration.type \in ExpressionKinds \ {"FunctionExpression"} )

\* the text ends with the lexemes of `suffix`
EndsWith(text, suffix) ==
    /\ Len(text) >= Len(suffix)
    /\ SubSeq(text, Len(text) - Len(suffix) + 1, Len(text)) = suffix

\* the text begins with the lexemes of `prefix`
BeginsWith(text, prefix) ==
    /\ Len(text) >= Len(prefix)
    /\ SubSeq(text, 1, Len(prefix)) = prefix

\* C15, block closing brace: the text of a block with statements, entered
\* at level L, ends with `}` on a line of its own behind exactly the indent
\* unit repeated L times, and the first line of its body begins with the
\* indent unit repeated L + 1 times, whatever `comments` and
\* `trailingComments` the block has and whether or not comments are written.
BlockClosingBrace ==
    (pc = "returned" /\ ast.type = "BlockStatement" /\ ast.body # <<>>) =>
        /\ EndsWith(Emitted, <<"\n">> \o Repeat(state.indent, state.indentLevel) \o <<"}">>)
        /\ BeginsWith(Emitted, <<"{">> \o state.lineEnd
                               \o Repeat(state.indent, state.indentLevel + 1))

====
